---- MODULE Spec2Model ----
(***************************************************************************)
(* ONCF Atelier Connecte (src/app.py): the criticality / health scoring    *)
(* engine and the write paths that call it.                                *)
(*                                                                         *)
(* Time is counted in whole days (an integer clock `now`); ISO timestamps  *)
(* of the code compare as strings in the same order as the instants they   *)
(* denote, so date_signalement >= since is modelled as integer >=.         *)
(* Floating point is modelled in exact integer arithmetic: the score of    *)
(* compute_criticite_calc in ten-thousandths, the health of                *)
(* recalc_train_health as the fraction (100*n - s) / n, each followed by   *)
(* the rounding Python's round() performs on the float the code holds.     *)
(***************************************************************************)
EXTENDS Integers, Sequences, FiniteSets, TLC

VARIABLES
    now,          \* the UTC clock read by now_iso / days_ago_iso, in days
    components,   \* table components: name -> criticite_max
    etat_sante,   \* table trains: id_train -> etat_sante
    anomalies,    \* table anomalies: row id (AUTOINCREMENT, 1..) -> row
    conformities, \* table conformities: its number of rows (no handler reads them back)
    parts,        \* table parts: ref -> qty
    ret,          \* outcome of the last direct call of a scoring function
    sessions      \* browser sessions running a handler: position and local variables

vars == <<now, components, etat_sante, anomalies, conformities, parts, ret, sessions>>

----------------------------------------------------------------------------
(* Bounds of the model *)

MaxAnom == 2        \* rows the handlers may insert into anomalies
MaxConf == 1        \* rows the handlers may insert into conformities
ClockStep == 90     \* days the clock advances in one Tick
MaxNow == 180       \* the clock stops advancing here
MaxPrior == 6       \* stored occurrences of one (train, component) pair
MaxRows == 3        \* stored anomalies of one train in the aggregator sweep

----------------------------------------------------------------------------
(* Program constants *)

DefaultDays == 90           \* days=90 / days_window=90
DefaultCriticite == 50      \* get_component_criticite: unknown component
SeedHealth == 100           \* seeded etat_sante
EmptyHealth == 100          \* recalc_train_health: no rows
CritiqueMin == 80           \* urgence "critique" threshold
MoyenneMin == 50            \* urgence "moyenne" threshold

SeedComponents ==
    [c \in {"frein", "porte", "moteur", "climatisation", "compresseur",
            "batterie", "pantographe"} |->
        CASE c = "frein" -> 95
          [] c = "porte" -> 80
          [] c = "moteur" -> 90
          [] c = "climatisation" -> 40
          [] c = "compresseur" -> 85
          [] c = "batterie" -> 70
          [] c = "pantographe" -> 88]

SeedTrains == [t \in {"Z2M-01", "Z2M-05", "Z2M-08"} |-> SeedHealth]

SeedParts == [p \in {"VP001", "VR003", "PLT10"} |->
                 CASE p = "VP001" -> 4 [] p = "VR003" -> 2 [] p = "PLT10" -> 20]

----------------------------------------------------------------------------
(* Inputs the handlers and the direct calls are exercised with *)

FormTrains == {"Z2M-01", "Z2M-05"}
\* (Composant, Gravite percue, Immobilisation) as filled into the anomaly form
FormInputs ==
    {[comp |-> "frein", grav |-> "Urgent", immobil |-> TRUE],
     [comp |-> "frein", grav |-> "Faible", immobil |-> FALSE],
     [comp |-> "climatisation", grav |-> "Moyen", immobil |-> FALSE]}
FormPieces == {"", "VR003 - Verin porte"}

CallTrains == {"Z2M-01", "Z2M-05", "Z9-99"}        \* "Z9-99": no such train
CallComponents == {"frein", "climatisation", "essieu"}   \* "essieu": not in the catalog
CallGravites == {"Urgent", "Moyen", "Faible", "Critique"} \* "Critique": no such tier
SampleCrits == {0, 40, 80, 100}

NoCall == [fn |-> "none"]

\* two technicians logged in at once, neither inside a handler
Sessions == {"tech-1", "tech-2"}
Idle == [pc |-> "idle"]
NoSession == [s \in Sessions |-> Idle]

----------------------------------------------------------------------------
(* Arithmetic helpers *)

Min(a, b) == IF a <= b THEN a ELSE b
Max(a, b) == IF a >= b THEN a ELSE b

\* Python round() of the exact value num/den (den > 0, num >= 0): nearest
\* integer, a tie going to the even neighbour.
RoundHalfEven(num, den) ==
    LET q == num \div den
        r == num % den
    IN  IF 2 * r < den THEN q
        ELSE IF 2 * r > den THEN q + 1
        ELSE IF q % 2 = 0 THEN q ELSE q + 1

\* Ties of health_f the binary float does not hold exactly: the code computes
\* 100.0 - (0.545 * 100.0) = 45.49999999999999 and
\* 100.0 - (0.575 * 100.0) = 42.50000000000001.
FloatTieBelow == {45}
FloatTieAbove == {42}

\* int(round(x)) of the float the code holds for the exact value num/den.
RoundHealth(num, den) ==
    LET q == num \div den
        r == num % den
    IN  IF 2 * r = den /\ q \in FloatTieBelow THEN q
        ELSE IF 2 * r = den /\ q \in FloatTieAbove THEN q + 1
        ELSE RoundHalfEven(num, den)

----------------------------------------------------------------------------
(* Business logic: criticity & health *)

days_ago_iso(clock, days) == clock - days

\* an unknown component scored with no baseline at all
get_component_criticite_nodefault(name) ==
    IF name \in DOMAIN components THEN components[name] ELSE 0

get_component_criticite(name) ==
    IF name \in DOMAIN components THEN components[name] ELSE DefaultCriticite

count_similar_recent(anoms, clock, train_id, composant, days) ==
    Cardinality({i \in DOMAIN anoms :
        /\ anoms[i].id_train = train_id
        /\ anoms[i].composant = composant
        /\ anoms[i].date_signalement >= days_ago_iso(clock, days)})

\* grav_map.get(gravite, 0.6), in thousandths
grav_map(gravite) ==
    CASE gravite = "Urgent" -> 1000
      [] gravite = "Moyen" -> 600
      [] gravite = "Faible" -> 300
      [] OTHER -> 600

\* occ / 5.0 without the saturation at 1.0
freq_factor_unsaturated(occ) == (occ * 1000) \div 5

\* min(1.0, occ / 5.0), in thousandths
freq_factor(occ) == Min(1000, (occ * 1000) \div 5)

\* 1.0 if immobilisation else 0.6, in tenths
imm_factor(immobilisation) == IF immobilisation THEN 10 ELSE 6

\* the weights of gravity and frequency exchanged: 0.5 + 0.2*grav + 0.3*freq_factor*imm
score_raw_swapped(criticite_max, grav, freq, imm) ==
    criticite_max * (5000 + 2 * grav + (3 * freq * imm) \div 10)

\* criticite_max * (0.5 + 0.3*grav + 0.2*freq_factor*imm), in ten-thousandths
score_raw(criticite_max, grav, freq, imm) ==
    criticite_max * (5000 + 3 * grav + (2 * freq * imm) \div 10)

\* max(0, min(100, round(score)))
score_clamp(raw) == Max(0, Min(100, RoundHalfEven(raw, 10000)))

\* compute_criticite_calc with neither min(1.0, ...) nor the final clamp
compute_locals_unbounded(anoms, clock, train_id, composant, gravite, immobilisation) ==
    LET criticite_max == get_component_criticite(composant)
        grav == grav_map(gravite)
        occ == count_similar_recent(anoms, clock, train_id, composant, DefaultDays)
        freq == (occ * 1000) \div 5
        imm == imm_factor(immobilisation)
    IN  [criticite_max |-> criticite_max, grav |-> grav, occ |-> occ,
         freq_factor |-> freq, imm |-> imm,
         score |-> RoundHalfEven(score_raw(criticite_max, grav, freq, imm), 10000)]

\* the local variables of compute_criticite_calc when it returns
compute_locals(anoms, clock, train_id, composant, gravite, immobilisation) ==
    LET criticite_max == get_component_criticite(composant)
        grav == grav_map(gravite)
        occ == count_similar_recent(anoms, clock, train_id, composant, DefaultDays)
        freq == freq_factor(occ)
        imm == imm_factor(immobilisation)
    IN  [criticite_max |-> criticite_max, grav |-> grav, occ |-> occ,
         freq_factor |-> freq, imm |-> imm,
         score |-> score_clamp(score_raw(criticite_max, grav, freq, imm))]

compute_criticite_calc(anoms, clock, train_id, composant, gravite, immobilisation) ==
    compute_locals(anoms, clock, train_id, composant, gravite, immobilisation).score

\* "critique" if crit_calc >= 80 else ("moyenne" if crit_calc >= 50 else "faible")
urgence_of(crit_calc) ==
    IF crit_calc >= CritiqueMin THEN "critique"
    ELSE IF crit_calc >= MoyenneMin THEN "moyenne" ELSE "faible"

\* the row the "Nouvelle anomalie" handler inserts into anoms at time clock
new_row(anoms, clock, sid, comp, immobil, grav) ==
    LET crit_calc == compute_criticite_calc(anoms, clock, sid, comp, grav, immobil)
    IN  [id_train |-> sid, composant |-> comp, gravite |-> grav,
         immobilisation |-> immobil, date_signalement |-> clock,
         criticite_calc |-> crit_calc, urgence |-> urgence_of(crit_calc),
         statut |-> "a traiter"]

\* a stored anomaly whose criticite_calc is v
with_crit(row, v) == [row EXCEPT !.criticite_calc = v, !.urgence = urgence_of(v)]

\* the SELECT with AND statut != 'resolu': resolved anomalies no longer weigh
health_rows_open(anoms, clock, train_id, days_window) ==
    {i \in DOMAIN anoms :
        /\ anoms[i].id_train = train_id
        /\ anoms[i].date_signalement >= days_ago_iso(clock, days_window)
        /\ anoms[i].statut # "resolu"}

\* rows of SELECT criticite_calc FROM anomalies WHERE id_train=? AND date_signalement>=?
health_rows(anoms, clock, train_id, days_window) ==
    {i \in DOMAIN anoms :
        /\ anoms[i].id_train = train_id
        /\ anoms[i].date_signalement >= days_ago_iso(clock, days_window)}

RECURSIVE SumCrit(_, _)
SumCrit(anoms, ids) ==
    IF ids = {} THEN 0
    ELSE LET i == CHOOSE x \in ids : TRUE
         IN  anoms[i].criticite_calc + SumCrit(anoms, ids \ {i})

\* int(health_f) in place of int(round(health_f))
health_of_truncated(n, s) ==
    IF n = 0 THEN EmptyHealth
    ELSE Max(0, Min(100 * n, n * 100 - s)) \div n

\* health_f = fraction * 100.0, the "100.0 -" forgotten
health_of_inverted(n, s) ==
    IF n = 0 THEN EmptyHealth
    ELSE RoundHealth(Max(0, Min(100 * n, s)), n)

\* the health recalc_train_health computes from n rows whose criticite_calc sum to s
health_of(n, s) ==
    IF n = 0 THEN EmptyHealth
    ELSE LET max_possible == n * 100
             \* health_f = 100.0 - (s / max_possible) * 100.0 = (100n - s) / n,
             \* clamped by max(0.0, min(100.0, health_f))
             num == Max(0, Min(100 * n, max_possible - s))
         IN  RoundHealth(num, n)

health_value(anoms, clock, train_id, days_window) ==
    LET rows == health_rows(anoms, clock, train_id, days_window)
    IN  health_of(Cardinality(rows), SumCrit(anoms, rows))

\* UPDATE trains SET etat_sante=? WHERE id_train=? : no row, no change
update_etat_sante(etat, train_id, health) ==
    IF train_id \in DOMAIN etat THEN [etat EXCEPT ![train_id] = health] ELSE etat

\* the trains table after recalc_train_health(train_id)
recalc_train_health(etat, anoms, clock, train_id) ==
    update_etat_sante(etat, train_id, health_value(anoms, clock, train_id, DefaultDays))

\* the trains table after recalc_all_trains()
recalc_all_trains(etat, anoms, clock) ==
    [t \in DOMAIN etat |-> health_value(anoms, clock, t, DefaultDays)]

----------------------------------------------------------------------------
(* Initial state: the database init_db() leaves behind *)

Init ==
    /\ now = 0
    /\ components = SeedComponents
    /\ etat_sante = SeedTrains
    /\ anomalies = <<>>
    /\ conformities = 0
    /\ parts = SeedParts
    /\ ret = NoCall
    /\ sessions = NoSession

----------------------------------------------------------------------------
(* Technicien pages *)

\* the handler without its final recalc_train_health(sid)
NouvelleAnomalie_norecalc(sid, comp, immobil, grav) ==
    /\ Len(anomalies) < MaxAnom
    /\ anomalies' = Append(anomalies, new_row(anomalies, now, sid, comp, immobil, grav))
    /\ UNCHANGED <<now, components, etat_sante, conformities, parts, ret, sessions>>

\* the handler scoring after the insert: the count includes the new row
NouvelleAnomalie_insertfirst(sid, comp, immobil, grav) ==
    /\ Len(anomalies) < MaxAnom
    /\ LET blank == [new_row(anomalies, now, sid, comp, immobil, grav)
                       EXCEPT !.criticite_calc = 0]
           crit_calc == compute_criticite_calc(Append(anomalies, blank), now, sid, comp,
                                               grav, immobil)
           inserted == Append(anomalies, with_crit(blank, crit_calc))
       IN  /\ anomalies' = inserted
           /\ etat_sante' = recalc_train_health(etat_sante, inserted, now, sid)
    /\ UNCHANGED <<now, components, conformities, parts, ret, sessions>>

\* "Nouvelle anomalie", form submitted: compute criticity, insert, recalc health
NouvelleAnomalie(sid, comp, immobil, grav) ==
    /\ Len(anomalies) < MaxAnom
    /\ LET inserted == Append(anomalies, new_row(anomalies, now, sid, comp, immobil, grav))
       IN  /\ anomalies' = inserted
           /\ etat_sante' = recalc_train_health(etat_sante, inserted, now, sid)
    /\ UNCHANGED <<now, components, conformities, parts, ret, sessions>>

\* "Mes anomalies", button "Marquer comme en cours"
MarquerEnCours(sel) ==
    /\ sel \in DOMAIN anomalies
    /\ anomalies' = [anomalies EXCEPT ![sel].statut = "en cours"]
    /\ UNCHANGED <<now, components, etat_sante, conformities, parts, ret, sessions>>

\* the handler also clearing the criticity of the resolved anomaly
MarquerResolu_rescoring(sel) ==
    /\ sel \in DOMAIN anomalies
    /\ LET updated == [anomalies EXCEPT ![sel].statut = "resolu",
                                        ![sel].criticite_calc = 0]
           tid == updated[sel].id_train
       IN  /\ anomalies' = updated
           /\ etat_sante' = recalc_train_health(etat_sante, updated, now, tid)
    /\ UNCHANGED <<now, components, conformities, parts, ret, sessions>>

\* "Mes anomalies", button "Marquer comme resolu"
MarquerResolu(sel) ==
    /\ sel \in DOMAIN anomalies
    /\ LET updated == [anomalies EXCEPT ![sel].statut = "resolu"]
           tid == updated[sel].id_train
       IN  /\ anomalies' = updated
           /\ etat_sante' = recalc_train_health(etat_sante, updated, now, tid)
    /\ UNCHANGED <<now, components, conformities, parts, ret, sessions>>

\* piece.split(" - ")[0] if piece else "", on the entries of FormPieces
piece_ref_of(piece) ==
    CASE piece = "" -> ""
      [] piece = "VR003 - Verin porte" -> "VR003"

\* "Fiche de conformite", form submitted: insert, decrement stock, recalc health
FicheConformite(train_sel, piece) ==
    /\ conformities < MaxConf
    /\ LET piece_ref == piece_ref_of(piece)
       IN  /\ conformities' = conformities + 1
           /\ parts' = IF piece_ref # "" /\ piece_ref \in DOMAIN parts
                       THEN [parts EXCEPT ![piece_ref] = @ - 1]
                       ELSE parts
    /\ etat_sante' = recalc_train_health(etat_sante, anomalies, now, train_sel)
    /\ UNCHANGED <<now, components, anomalies, ret, sessions>>

----------------------------------------------------------------------------
(* Responsable pages *)

\* "Dashboard": recalc_all_trains() before the KPIs are read
Dashboard ==
    /\ etat_sante' = recalc_all_trains(etat_sante, anomalies, now)
    /\ UNCHANGED <<now, components, anomalies, conformities, parts, ret, sessions>>

----------------------------------------------------------------------------
(* The clock *)

Tick ==
    /\ now + ClockStep <= MaxNow
    /\ now' = now + ClockStep
    /\ UNCHANGED <<components, etat_sante, anomalies, conformities, parts, ret, sessions>>

Next ==
    \/ \E sid \in FormTrains, f \in FormInputs :
          NouvelleAnomalie(sid, f.comp, f.immobil, f.grav)
    \/ \E sel \in 1..MaxAnom : MarquerEnCours(sel)
    \/ \E sel \in 1..MaxAnom : MarquerResolu(sel)
    \/ \E train_sel \in FormTrains, piece \in FormPieces : FicheConformite(train_sel, piece)
    \/ Dashboard
    \/ Tick

Spec == Init /\ [][Next]_vars

----------------------------------------------------------------------------
(* Direct calls of the two scoring functions on a stored database.          *)
(*                                                                         *)
(* The stored database is one the handlers produce: an optional anomaly of *)
(* day 0, then anomalies of day DefaultDays (on that day the first one is  *)
(* still inside the window), then the clock moved one day on, so that the  *)
(* first anomaly has left the window and etat_sante is as the last         *)
(* insertion wrote it.                                                     *)

RECURSIVE Occurrences(_, _, _, _)
\* k anomalies (train_id, composant) reported one after the other at time clock
Occurrences(anoms, clock, k, sid) ==
    IF k = 0 THEN anoms
    ELSE LET prev == Occurrences(anoms, clock, k - 1, sid)
         IN  Append(prev, new_row(prev, clock, sid, "frein", FALSE, "Moyen"))

OldRows(old) ==
    IF old THEN <<new_row(<<>>, 0, "Z2M-01", "frein", TRUE, "Urgent")>> ELSE <<>>

\* the catalog holds any criticite_max in 0..100 for "frein"
InitCalc ==
    \E cm \in 0..100, k \in 0..MaxPrior, old \in BOOLEAN :
        /\ now = DefaultDays + 1
        /\ components = [SeedComponents EXCEPT !["frein"] = cm]
        /\ anomalies = Occurrences(OldRows(old), DefaultDays, k, "Z2M-01")
        /\ etat_sante = recalc_train_health(SeedTrains, anomalies, DefaultDays, "Z2M-01")
        /\ conformities = 0
        /\ parts = SeedParts
        /\ ret = NoCall
        /\ sessions = NoSession

\* compute_criticite_calc(train_id, composant, gravite, immobilisation)
ComputeCall(train_id, composant, gravite, immobilisation) ==
    /\ ret = NoCall
    /\ ret' = [fn |-> "compute_criticite_calc", train_id |-> train_id,
               composant |-> composant, gravite |-> gravite,
               immobilisation |-> immobilisation, raised |-> "none",
               locals |-> compute_locals(anomalies, now, train_id, composant,
                                         gravite, immobilisation),
               value |-> compute_criticite_calc(anomalies, now, train_id, composant,
                                                gravite, immobilisation)]
    /\ UNCHANGED <<now, components, etat_sante, anomalies, conformities, parts, sessions>>

NextCalc ==
    \E train_id \in CallTrains, composant \in CallComponents,
       gravite \in CallGravites, immobilisation \in BOOLEAN :
        ComputeCall(train_id, composant, gravite, immobilisation)

SpecCalc == InitCalc /\ [][NextCalc]_vars

RECURSIVE StoredRows(_, _, _)
\* the anomalies of "Z2M-01" stored on day clock with the criticities crits
StoredRows(anoms, clock, crits) ==
    IF crits = <<>> THEN anoms
    ELSE LET prev == StoredRows(anoms, clock, SubSeq(crits, 1, Len(crits) - 1))
         IN  Append(prev, with_crit(new_row(prev, clock, "Z2M-01", "frein", TRUE, "Urgent"),
                                    crits[Len(crits)]))

\* criticities of the stored anomalies: the first sweeps 0..100
CritLists ==
    UNION {[1..n -> 0..100] : n \in 0..1}
    \cup UNION {{<<a>> \o rest : a \in 0..100, rest \in [1..n -> SampleCrits]}
               : n \in 1..(MaxRows - 1)}

InitHealth ==
    \E crits \in CritLists, old \in BOOLEAN :
        /\ now = DefaultDays + 1
        /\ components = SeedComponents
        /\ anomalies = StoredRows(OldRows(old), DefaultDays, crits)
        /\ etat_sante = recalc_train_health(SeedTrains, anomalies, DefaultDays, "Z2M-01")
        /\ conformities = 0
        /\ parts = SeedParts
        /\ ret = NoCall
        /\ sessions = NoSession

\* recalc_train_health(train_id)
RecalcCall(train_id) ==
    /\ etat_sante' = recalc_train_health(etat_sante, anomalies, now, train_id)
    /\ ret' = [fn |-> "recalc_train_health", train_id |-> train_id, raised |-> "none",
               value |-> health_value(anomalies, now, train_id, DefaultDays)]
    /\ UNCHANGED <<now, components, anomalies, conformities, parts, sessions>>

NextHealth == \E train_id \in CallTrains : RecalcCall(train_id)

SpecHealth == InitHealth /\ [][NextHealth]_vars

----------------------------------------------------------------------------
(* Properties of compute_criticite_calc, checked under SpecCalc *)

Computed == ret.fn = "compute_criticite_calc"

Abs(x) == IF x >= 0 THEN x ELSE -x

\* the occurrences the call is documented to count: rows of the same train
\* and component reported no more than 90 days before now
PriorOccurrences ==
    Cardinality({i \in 1..Len(anomalies) :
        /\ anomalies[i].id_train = ret.train_id
        /\ anomalies[i].composant = ret.composant
        /\ now - anomalies[i].date_signalement <= 90})

\* max_criticality x (0.5 + 0.3 x severity + 0.2 x frequency x immobilization),
\* in thousandths, for the call recorded in ret
DocumentedScore ==
    LET cm == IF ret.composant \in DOMAIN components
              THEN components[ret.composant] ELSE 50
        sev == IF ret.gravite = "Urgent" THEN 10
               ELSE IF ret.gravite = "Faible" THEN 3 ELSE 6
        fifths == IF PriorOccurrences >= 5 THEN 5 ELSE PriorOccurrences
        im == IF ret.immobilisation THEN 10 ELSE 6
    IN  cm * (500 + 30 * sev + 4 * fifths * im)

\* v is clamp(r, 0, 100) for an integer r nearest to x thousandths
IsClampedNearest(v, x) ==
    \E r \in 0..200 : 2 * Abs(1000 * r - x) <= 1000 /\ v = Max(0, Min(100, r))

\* C1: compute_criticite_calc returns an integer in [0,100] for every
\* max_criticality in 0..100 (50 for an unknown component), every severity,
\* either immobilization flag and every count of prior occurrences.
C1_ScoreInRange == Computed => ret.value \in 0..100

\* the top of the range: criticite_max 100, Urgent, immobilized, saturated frequency
C1_Witness ==
    /\ Computed
    /\ ret.locals.criticite_max = 100
    /\ ret.gravite = "Urgent" /\ ret.immobilisation
    /\ ret.locals.occ >= 5
    /\ ret.value = 100

\* C3: the value returned is the documented weighted score rounded to a nearest
\* integer and clamped to [0,100]; 95/Urgent/occ 0/immobilized gives 76 and
\* 95/Faible/occ 6/not immobilized gives 67.
C3_ScoreFormula ==
    Computed =>
        /\ IsClampedNearest(ret.value, DocumentedScore)
        /\ (/\ ret.locals.criticite_max = 95 /\ ret.gravite = "Urgent"
            /\ PriorOccurrences = 0 /\ ret.immobilisation) => ret.value = 76
        /\ (/\ ret.locals.criticite_max = 95 /\ ret.gravite = "Faible"
            /\ PriorOccurrences = 6 /\ ~ret.immobilisation) => ret.value = 67

\* the second worked example of the specification
C3_Witness ==
    /\ Computed
    /\ ret.composant = "frein" /\ components["frein"] = 95
    /\ ret.gravite = "Faible" /\ ~ret.immobilisation
    /\ PriorOccurrences = 6
    /\ ret.value = 67

\* C5: the call never ends in an error; a component outside the catalog is
\* scored with max_criticality 50, a severity outside {Urgent, Moyen, Faible}
\* with multiplier 0.6 and so with the result severity Moyen gives.
C5_SoftFallback ==
    Computed =>
        /\ ret.raised = "none"
        /\ ret.composant \notin DOMAIN components =>
              /\ ret.locals.criticite_max = 50
              /\ IsClampedNearest(ret.value, DocumentedScore)
        /\ ret.gravite \notin {"Urgent", "Moyen", "Faible"} =>
              /\ ret.locals.grav = 600
              /\ ret.value = compute_criticite_calc(anomalies, now, ret.train_id,
                                                    ret.composant, "Moyen",
                                                    ret.immobilisation)

\* unknown component and unknown severity in one call: 50 x 0.68 = 34
C5_Witness ==
    /\ Computed
    /\ ret.composant = "essieu" /\ ret.gravite = "Critique"
    /\ ret.value = 34

\* C8: the frequency factor is min(1, occ/5) of the in-window occurrences of
\* the same (train, component): 0, 0.2, 0.8, 1, 1 at occ = 0, 1, 4, 5, 6,
\* non-decreasing in occ, and 1.0 from occ = 5 on, where the score no longer
\* changes with occ.
C8_FrequencyFactor ==
    Computed =>
        /\ ret.locals.occ = PriorOccurrences
        /\ ret.locals.freq_factor =
              (CASE PriorOccurrences = 0 -> 0
                 [] PriorOccurrences = 1 -> 200
                 [] PriorOccurrences = 2 -> 400
                 [] PriorOccurrences = 3 -> 600
                 [] PriorOccurrences = 4 -> 800
                 [] OTHER -> 1000)
        /\ \A o \in 0..PriorOccurrences : freq_factor(o) <= freq_factor(o + 1)
        /\ PriorOccurrences >= 5 =>
              \* the same call on the table without the occurrences after the fifth
              ret.value = compute_criticite_calc(
                              SubSeq(anomalies, 1, Len(anomalies) - (PriorOccurrences - 5)),
                              now, ret.train_id, ret.composant, ret.gravite,
                              ret.immobilisation)

\* a sixth occurrence in the window, one older occurrence outside it
C8_Witness ==
    /\ Computed
    /\ Len(anomalies) = 7
    /\ ret.locals.occ = 6
    /\ ret.locals.freq_factor = 1000
    /\ ret.immobilisation

----------------------------------------------------------------------------
(* Properties of recalc_train_health, checked under SpecHealth *)

Recalculated == ret.fn = "recalc_train_health"

\* the anomalies of train t reported no more than 90 days before now
InWindow(anoms, t) ==
    {i \in 1..Len(anoms) : anoms[i].id_train = t /\ now - anoms[i].date_signalement <= 90}

RECURSIVE CritTotal(_, _, _)
\* sum of criticite_calc over the rows 1..k of anoms that are in ids
CritTotal(anoms, ids, k) ==
    IF k = 0 THEN 0
    ELSE CritTotal(anoms, ids, k - 1) + (IF k \in ids THEN anoms[k].criticite_calc ELSE 0)

\* h is 100 for no anomaly, else an integer nearest to clamp(100 - 100 s/(n 100), 0, 100)
IsDocumentedHealth(h, anoms, t) ==
    LET ids == InWindow(anoms, t)
        n == Cardinality(ids)
        s == CritTotal(anoms, ids, Len(anoms))
    IN  IF n = 0 THEN h = 100
        ELSE /\ h \in 0..100
             /\ 2 * Abs(n * h - Max(0, Min(100 * n, 100 * n - s))) <= n

\* C4: recalc_train_health returns exactly 100 for a train with no anomaly in
\* the window, else round(clamp(100 - 100 s/(n 100), 0, 100)); criticalities 80
\* and 40 give 40; the value returned is the value written to the train.
C4_HealthFormula ==
    Recalculated =>
        /\ IsDocumentedHealth(ret.value, anomalies, ret.train_id)
        /\ (\E i, j \in InWindow(anomalies, ret.train_id) :
               /\ InWindow(anomalies, ret.train_id) = {i, j} /\ i # j
               /\ anomalies[i].criticite_calc = 80
               /\ anomalies[j].criticite_calc = 40) => ret.value = 40
        /\ ret.train_id \in DOMAIN etat_sante => etat_sante[ret.train_id] = ret.value

\* the worked example, with a third anomaly that has left the window
C4_Witness ==
    /\ Recalculated
    /\ ret.train_id = "Z2M-01"
    /\ Len(anomalies) = 3
    /\ anomalies[1].date_signalement = 0
    /\ anomalies[2].criticite_calc = 80 /\ anomalies[3].criticite_calc = 40
    /\ ret.value = 40
    /\ etat_sante["Z2M-01"] = 40

\* C9: raising the criticality of one in-window anomaly, the others held
\* fixed, never raises the health recalc_train_health computes.
C9_HealthMonotone ==
    Recalculated =>
        \A i \in InWindow(anomalies, ret.train_id) :
            \A v \in anomalies[i].criticite_calc..100 :
                health_value([anomalies EXCEPT ![i].criticite_calc = v], now,
                             ret.train_id, DefaultDays) <= ret.value

\* three anomalies in the window, and a higher criticality that lowers the health
C9_Witness ==
    /\ Recalculated
    /\ Cardinality(InWindow(anomalies, ret.train_id)) = 3
    /\ \E i \in InWindow(anomalies, ret.train_id) :
           \E v \in anomalies[i].criticite_calc..100 :
               health_value([anomalies EXCEPT ![i].criticite_calc = v], now,
                            ret.train_id, DefaultDays) < ret.value

\* C7: a call of recalc_train_health for a train id with no train record
\* surfaces a not-found condition and does not return a health value.
C7_MissingTrainSurfaced ==
    (Recalculated /\ ret.train_id \notin DOMAIN etat_sante) => ret.raised = "not_found"

----------------------------------------------------------------------------
(* Properties of the write paths, checked under Spec *)

\* C2: while no stored anomaly has left the 90-day window, every train's
\* etat_sante is the aggregator's formula of its anomalies in the window.
C2_HealthConsistent ==
    (\A i \in 1..Len(anomalies) : now - anomalies[i].date_signalement <= 90) =>
        \A t \in DOMAIN etat_sante : IsDocumentedHealth(etat_sante[t], anomalies, t)

\* two anomalies of one train, one resolved, a conformity record logged, the
\* older anomaly on the last day of its window
C2_Witness ==
    /\ Len(anomalies) = 2
    /\ anomalies[1].id_train = anomalies[2].id_train
    /\ anomalies[1].statut = "resolu"
    /\ anomalies[1].date_signalement = 0 /\ now = 90
    /\ conformities = 1
    /\ etat_sante[anomalies[1].id_train] < 100

\* C6: no operation changes the criticite_calc of an anomaly already stored.
C6_CriticiteFrozen ==
    [][\A i \in 1..Len(anomalies) :
          /\ i \in 1..Len(anomalies')
          /\ anomalies'[i].criticite_calc = anomalies[i].criticite_calc]_vars

\* a resolved anomaly still carries the score of its creation (76, no prior
\* occurrence) although a later one of the same pair was scored 80
C6_Witness ==
    /\ Len(anomalies) = 2
    /\ anomalies[1].id_train = anomalies[2].id_train
    /\ anomalies[1].composant = "frein" /\ anomalies[2].composant = "frein"
    /\ anomalies[1].statut = "resolu"
    /\ anomalies[1].criticite_calc = 76 /\ anomalies[2].criticite_calc = 80
    /\ conformities = 1

\* max_criticality x (0.5 + 0.3 x severity + 0.2 x min(1, occ/5) x immobilization),
\* in thousandths, for a stored row and a count occ
RowScore(row, occ) ==
    LET cm == IF row.composant \in DOMAIN components
              THEN components[row.composant] ELSE 50
        sev == IF row.gravite = "Urgent" THEN 10
               ELSE IF row.gravite = "Faible" THEN 3 ELSE 6
        fifths == IF occ >= 5 THEN 5 ELSE occ
        im == IF row.immobilisation THEN 10 ELSE 6
    IN  cm * (500 + 30 * sev + 4 * fifths * im)

\* C10: a new anomaly is scored with the count of the anomalies of its
\* (train, component) stored before the insertion and inside the window, so
\* the first one of a pair with frequency factor 0; the health written by
\* the same operation counts the new anomaly.
C10_CountBeforeInsert ==
    [][Len(anomalies') = Len(anomalies) + 1 =>
          LET new == anomalies'[Len(anomalies')]
              same == {i \in 1..Len(anomalies) :
                          /\ anomalies[i].id_train = new.id_train
                          /\ anomalies[i].composant = new.composant}
              prior == {i \in same : now - anomalies[i].date_signalement <= 90}
          IN  /\ SubSeq(anomalies', 1, Len(anomalies)) = anomalies
              /\ IsClampedNearest(new.criticite_calc, RowScore(new, Cardinality(prior)))
              /\ same = {} => IsClampedNearest(new.criticite_calc, RowScore(new, 0))
              /\ Len(anomalies') \in InWindow(anomalies', new.id_train)
              /\ IsDocumentedHealth(etat_sante'[new.id_train], anomalies', new.id_train)]_vars

\* the second anomaly of a pair, reported on the last day the first one is in
\* the window: scored 80 with one prior occurrence, and the health is that of both
C10_Witness ==
    /\ Len(anomalies) = 2
    /\ anomalies[1].id_train = anomalies[2].id_train
    /\ anomalies[1].composant = "frein" /\ anomalies[2].composant = "frein"
    /\ anomalies[1].date_signalement = 0 /\ anomalies[2].date_signalement = 90
    /\ anomalies[1].criticite_calc = 76 /\ anomalies[2].criticite_calc = 80
    /\ now = 90
    /\ etat_sante[anomalies[1].id_train] = 22

\* a step of "Marquer comme en cours", "Marquer comme resolu" or of the
\* "Fiche de conformite" form; none of them moves the clock
StatusOrConformityStep ==
    \/ \E sel \in 1..MaxAnom : MarquerEnCours(sel)
    \/ \E sel \in 1..MaxAnom : MarquerResolu(sel)
    \/ \E train_sel \in FormTrains, piece \in FormPieces : FicheConformite(train_sel, piece)

\* every train's etat_sante is the formula of its anomalies now in the window
HealthUpToDate ==
    \A t \in DOMAIN etat_sante : IsDocumentedHealth(etat_sante[t], anomalies, t)

----------------------------------------------------------------------------
(* Two sessions in the "Nouvelle anomalie" handler at once.                 *)
(*                                                                         *)
(* Every statement runs on a connection of its own (get_conn() ... close)  *)
(* and commits alone, so a handler is a sequence of separate steps: the    *)
(* count and the score, the INSERT, the SELECT of recalc_train_health and  *)
(* its UPDATE. Nothing orders the steps of one session against another's.  *)

\* form submitted: crit_calc = compute_criticite_calc(sid, comp, grav, immobil)
ConcSubmit(s, sid, comp, immobil, grav) ==
    /\ sessions[s].pc = "idle"
    /\ Len(anomalies) + Cardinality({x \in Sessions : sessions[x].pc = "insert"}) < MaxAnom
    /\ sessions' = [sessions EXCEPT ![s] =
           [pc |-> "insert", sid |-> sid, comp |-> comp, immobil |-> immobil, grav |-> grav,
            crit_calc |-> compute_criticite_calc(anomalies, now, sid, comp, grav, immobil)]]
    /\ UNCHANGED <<now, components, etat_sante, anomalies, conformities, parts, ret>>

\* INSERT INTO anomalies ... ; conn.commit()
ConcInsert(s) ==
    /\ sessions[s].pc = "insert"
    /\ LET l == sessions[s]
       IN  /\ anomalies' = Append(anomalies,
                  with_crit(new_row(anomalies, now, l.sid, l.comp, l.immobil, l.grav),
                            l.crit_calc))
           /\ sessions' = [sessions EXCEPT ![s] = [pc |-> "select", sid |-> l.sid]]
    /\ UNCHANGED <<now, components, etat_sante, conformities, parts, ret>>

\* recalc_train_health: SELECT criticite_calc ..., then health computed from the rows
ConcSelect(s) ==
    /\ sessions[s].pc = "select"
    /\ sessions' = [sessions EXCEPT ![s] =
           [pc |-> "update", sid |-> sessions[s].sid,
            health |-> health_value(anomalies, now, sessions[s].sid, DefaultDays)]]
    /\ UNCHANGED <<now, components, etat_sante, anomalies, conformities, parts, ret>>

\* the UPDATE inside a transaction that reads the rows again
ConcUpdate_reread(s) ==
    /\ sessions[s].pc = "update"
    /\ etat_sante' = recalc_train_health(etat_sante, anomalies, now, sessions[s].sid)
    /\ sessions' = [sessions EXCEPT ![s] = Idle]
    /\ UNCHANGED <<now, components, anomalies, conformities, parts, ret>>

\* recalc_train_health: UPDATE trains SET etat_sante=? ... ; conn.commit(); return health
ConcUpdate(s) ==
    /\ sessions[s].pc = "update"
    /\ etat_sante' = update_etat_sante(etat_sante, sessions[s].sid, sessions[s].health)
    /\ sessions' = [sessions EXCEPT ![s] = Idle]
    /\ UNCHANGED <<now, components, anomalies, conformities, parts, ret>>

NextConc ==
    \E s \in Sessions :
        \/ \E sid \in FormTrains, f \in FormInputs :
              ConcSubmit(s, sid, f.comp, f.immobil, f.grav)
        \/ ConcInsert(s)
        \/ ConcSelect(s)
        \/ ConcUpdate(s)

SpecConc == Init /\ [][NextConc]_vars

----------------------------------------------------------------------------
(* Properties of concurrent sessions, checked under SpecConc *)

\* C11: the read and the write of recalc_train_health are separate steps
\* under no lock: the read computes the health of the anomalies stored at that
\* moment, and the write stores that value whatever has been committed since,
\* so the last write wins and an update can be lost.
C11_LastWriteWins ==
    [][\A s \in Sessions :
          /\ (sessions[s].pc = "select" /\ sessions'[s].pc = "update") =>
                /\ IsDocumentedHealth(sessions'[s].health, anomalies, sessions[s].sid)
                /\ etat_sante' = etat_sante
          /\ (sessions[s].pc = "update" /\ sessions'[s].pc = "idle") =>
                etat_sante' = [etat_sante EXCEPT ![sessions[s].sid] = sessions[s].health]]_vars

\* the lost update: both sessions have finished, both anomalies of the train
\* are committed, and the stored health is that of the first anomaly alone
C11_LostUpdate ==
    /\ \A s \in Sessions : sessions[s].pc = "idle"
    /\ Len(anomalies) = 2
    /\ anomalies[1].id_train = "Z2M-01" /\ anomalies[2].id_train = "Z2M-01"
    /\ ~IsDocumentedHealth(etat_sante["Z2M-01"], anomalies, "Z2M-01")
    /\ IsDocumentedHealth(etat_sante["Z2M-01"], SubSeq(anomalies, 1, 1), "Z2M-01")

====
